---- MODULE Spec2Model ----
(***************************************************************************)
(* Model of the pdf2text-converter backend: the text normaliser, the page  *)
(* chunker, the repetitive-content filter, the extraction pipeline and the *)
(* two upload endpoints.                                                   *)
(*                                                                         *)
(* Text is a sequence of characters.  A character is a one-element name:   *)
(*   "x" "y"  letters            "7"   a decimal digit                     *)
(*   "-"      hyphen-minus       "shy" U+00AD soft hyphen                  *)
(*   "nl"     line feed          "sp"  space        "nbsp" U+00A0          *)
(*   "fi"     U+FB01 ligature    "f" "i" its expansion                     *)
(*   "(c)"    the copyright sign                                           *)
(***************************************************************************)
EXTENDS Integers, Sequences, FiniteSets, TLC

VARIABLES
    \* TextNormalizer.normalize applied once and twice
    n_text, n_opts, n_once, n_twice, n_pc,
    \* PDFChunker.create_chunks: the document, the chunker and the locals
    c_doc_pages, c_file_size, c_chunk_size_mb, c_doc_open,
    c_total_pages, c_pages_per_chunk, c_chunks, c_current_page, c_pc,
    \* TextFilter: the instance field, and the last call with what it returned
    f_min_repetition_threshold, f_call, f_repetitive, f_result, f_calls,
    \* one request to /extract or /extract-stream: the upload and its file
    r_endpoint, r_pdf_name, r_upload_mb, r_max_file_size_mb, r_total_size,
    r_written, r_file_exists, r_status, r_pc,
    \* the query options of the request
    opts,
    \* PDFProcessor: configuration, the document, and the locals of process_pdf,
    \* _process_chunked, _extract_text_sync / _extract_text_range_sync and
    \* process_pdf_stream
    p_chunk_size_mb, p_doc_pages, p_open_docs, p_chunks, p_chunks_processed,
    p_start_page, p_end_page, p_page_num, p_page_texts, p_all_text,
    p_total_pages, p_result, p_error, p_pc,
    \* what the streaming generator has yielded
    s_emitted,
    \* history: every page extracted so far (index, embedded text, OCR use and
    \* outcome, resulting text), and the unit finished last
    h_pages, h_unit

normVars == <<n_text, n_opts, n_once, n_twice, n_pc>>

chunkVars == <<c_doc_pages, c_file_size, c_chunk_size_mb, c_doc_open,
               c_total_pages, c_pages_per_chunk, c_chunks, c_current_page, c_pc>>

filterVars == <<f_min_repetition_threshold, f_call, f_repetitive, f_result, f_calls>>

requestVars == <<r_endpoint, r_pdf_name, r_upload_mb, r_max_file_size_mb, opts,
                 p_chunk_size_mb, p_doc_pages>>

pipeVars == <<requestVars, r_total_size, r_written, r_file_exists, r_status, r_pc,
              p_open_docs, p_chunks, p_chunks_processed, p_start_page, p_end_page,
              p_page_num, p_page_texts, p_all_text, p_total_pages, p_result,
              p_error, p_pc, s_emitted, h_pages, h_unit>>

vars == <<normVars, chunkVars, filterVars, pipeVars>>

\* what the steps of one component leave alone
notNorm == <<chunkVars, filterVars, pipeVars>>
notChunk == <<normVars, filterVars, pipeVars>>
notFilter == <<normVars, chunkVars, pipeVars>>
notPipe == <<normVars, chunkVars, filterVars>>

(***************************************************************************)
(* The value of each component's variables while another one is modelled   *)
(***************************************************************************)

NormIdle ==
    /\ n_text = <<>>
    /\ n_opts = [ligatures |-> TRUE, unicode_norm |-> TRUE, whitespace |-> TRUE,
                 soft_hyphens |-> TRUE, ocr_errors |-> FALSE]
    /\ n_once = <<>>
    /\ n_twice = <<>>
    /\ n_pc = "idle"

ChunkIdle ==
    /\ c_doc_pages = 0
    /\ c_file_size = 1
    /\ c_chunk_size_mb = 1
    /\ c_doc_open = FALSE
    /\ c_total_pages = 0
    /\ c_pages_per_chunk = 0
    /\ c_chunks = <<>>
    /\ c_current_page = 0
    /\ c_pc = "idle"

\* TextFilter() with its default threshold, before any call
FilterIdle ==
    /\ f_min_repetition_threshold = 3
    /\ f_call = [op |-> "none"]
    /\ f_repetitive = {}
    /\ f_result = <<>>
    /\ f_calls = 0

\* no request has arrived
PipeIdle ==
    /\ r_endpoint = "none"
    /\ r_pdf_name = TRUE
    /\ r_upload_mb = 0
    /\ r_max_file_size_mb = 0
    /\ r_total_size = 0
    /\ r_written = 0
    /\ r_file_exists = FALSE
    /\ r_status = 0
    /\ r_pc = "idle"
    /\ opts = [use_ocr |-> TRUE, chunk_processing |-> TRUE,
               remove_repetitive |-> TRUE, remove_copyright |-> TRUE]
    /\ p_chunk_size_mb = 0
    /\ p_doc_pages = 0
    /\ p_open_docs = 0
    /\ p_chunks = <<>>
    /\ p_chunks_processed = 0
    /\ p_start_page = 0
    /\ p_end_page = 0
    /\ p_page_num = 0
    /\ p_page_texts = <<>>
    /\ p_all_text = <<>>
    /\ p_total_pages = 0
    /\ p_result = <<>>
    /\ p_error = "none"
    /\ p_pc = "idle"
    /\ s_emitted = <<>>
    /\ h_pages = <<>>
    /\ h_unit = <<>>

(***************************************************************************)
(* Character classes and string primitives (Python str / re semantics)     *)
(***************************************************************************)

\* str.isspace(), and \s of a str pattern: Unicode white space
IsSpace(c) == c \in {"sp", "nl", "nbsp"}

\* index of the last character of the maximal white-space run starting at i
\* (i - 1 when s[i] is not white space)
RECURSIVE WsRunEnd(_, _)
WsRunEnd(s, i) ==
    IF i <= Len(s) /\ IsSpace(s[i]) THEN WsRunEnd(s, i + 1) ELSE i - 1

\* index of the last character of the maximal run of U+0020 starting at i
RECURSIVE SpRunEnd(_, _)
SpRunEnd(s, i) ==
    IF i <= Len(s) /\ s[i] = "sp" THEN SpRunEnd(s, i + 1) ELSE i - 1

NlPositions(s, i, j) == {k \in i..j : s[k] = "nl"}

LastNl(s, i, j) == CHOOSE k \in NlPositions(s, i, j) :
                      \A m \in NlPositions(s, i, j) : m <= k

\* str.strip() / str.rstrip() with no argument
RECURSIVE Rstrip(_)
Rstrip(s) ==
    IF s # <<>> /\ IsSpace(s[Len(s)]) THEN Rstrip(SubSeq(s, 1, Len(s) - 1)) ELSE s

RECURSIVE Lstrip(_)
Lstrip(s) ==
    IF s # <<>> /\ IsSpace(s[1]) THEN Lstrip(Tail(s)) ELSE s

Strip(s) == Lstrip(Rstrip(s))

SetMin(S) == CHOOSE m \in S : \A k \in S : m <= k

\* index of the n-th newline of s; 0 for n = 0 and Len(s) + 1 past the last
NthNl(s, n) ==
    LET nls == NlPositions(s, 1, Len(s))
    IN IF n = 0 THEN 0
       ELSE IF n > Cardinality(nls) THEN Len(s) + 1
       ELSE CHOOSE k \in nls : Cardinality({m \in nls : m < k}) = n - 1

\* str.split('\n'): always at least one (possibly empty) line
SplitLines(s) ==
    [n \in 1..(Cardinality(NlPositions(s, 1, Len(s))) + 1) |->
        SubSeq(s, NthNl(s, n - 1) + 1, NthNl(s, n) - 1)]

\* '\n'.join(lines)
RECURSIVE JoinLines(_)
JoinLines(ls) ==
    IF ls = <<>> THEN <<>>
    ELSE IF Len(ls) = 1 THEN ls[1]
    ELSE ls[1] \o <<"nl">> \o JoinLines(Tail(ls))


(***************************************************************************)
(* TextNormalizer                                                          *)
(***************************************************************************)

\* LIGATURES table restricted to the alphabet: U+FB01 -> "fi"
LigatureExpansion(c) == IF c = "fi" THEN <<"f", "i">> ELSE <<c>>

\* text.replace(ligature, replacement), from index i on
RECURSIVE ReplaceLigatures(_, _)
ReplaceLigatures(s, i) ==
    LET at == {m \in i..Len(s) : LigatureExpansion(s[m]) # <<s[m]>>}
    IN IF at = {} THEN SubSeq(s, i, Len(s))
       ELSE SubSeq(s, i, SetMin(at) - 1) \o LigatureExpansion(s[SetMin(at)])
            \o ReplaceLigatures(s, SetMin(at) + 1)

normalize_ligatures(text) == ReplaceLigatures(text, 1)

\* unicodedata.normalize('NFKC', .) on the alphabet: the ligature decomposes,
\* the no-break space becomes a space, the soft hyphen is unchanged
NFKC(c) == IF c = "fi" THEN <<"f", "i">>
           ELSE IF c = "nbsp" THEN <<"sp">>
           ELSE <<c>>

RECURSIVE ComposeFrom(_, _)
ComposeFrom(s, i) ==
    LET at == {m \in i..Len(s) : NFKC(s[m]) # <<s[m]>>}
    IN IF at = {} THEN SubSeq(s, i, Len(s))
       ELSE SubSeq(s, i, SetMin(at) - 1) \o NFKC(s[SetMin(at)])
            \o ComposeFrom(s, SetMin(at) + 1)

normalize_unicode(text) == ComposeFrom(text, 1)

\* re.sub(r'-\s*\n\s*', '', text): a hyphen followed by a white-space run
\* that holds a newline is removed together with the whole run
\* (from index i on: the text up to the leftmost match, then past it)
RECURSIVE SubHyphenBreak(_, _)
SubHyphenBreak(s, i) ==
    LET at == {m \in i..Len(s) :
                  s[m] = "-" /\ NlPositions(s, m + 1, WsRunEnd(s, m + 1)) # {}}
    IN IF at = {} THEN SubSeq(s, i, Len(s))
       ELSE SubSeq(s, i, SetMin(at) - 1)
            \o SubHyphenBreak(s, WsRunEnd(s, SetMin(at) + 1) + 1)

remove_soft_hyphens(text) ==
    SelectSeq(SubHyphenBreak(text, 1), LAMBDA c : c # "shy")

\* re.sub(r' +', ' ', text)
RECURSIVE SubSpaces(_, _)
SubSpaces(s, i) ==
    LET at == {m \in i..Len(s) : s[m] = "sp"}
    IN IF at = {} THEN SubSeq(s, i, Len(s))
       ELSE SubSeq(s, i, SetMin(at) - 1) \o <<"sp">>
            \o SubSpaces(s, SpRunEnd(s, SetMin(at)) + 1)

\* re.sub(r'\n\s*\n\s*\n+', '\n\n', text): a white-space run that starts with
\* a newline and holds three or more is replaced up to its last newline
RECURSIVE SubBlankLines(_, _)
SubBlankLines(s, i) ==
    LET at == {m \in i..Len(s) :
                  s[m] = "nl" /\ Cardinality(NlPositions(s, m, WsRunEnd(s, m))) >= 3}
    IN IF at = {} THEN SubSeq(s, i, Len(s))
       ELSE SubSeq(s, i, SetMin(at) - 1) \o <<"nl", "nl">>
            \o SubBlankLines(s, LastNl(s, SetMin(at), WsRunEnd(s, SetMin(at))) + 1)

RstripEach(ls) == [k \in 1..Len(ls) |-> Rstrip(ls[k])]

clean_whitespace(text) ==
    Strip(JoinLines(RstripEach(SplitLines(
        SubBlankLines(SubSpaces(text, 1), 1)))))

\* the substitutions are commented out in the source: the text is returned
fix_common_ocr_errors(text) == text

normalize(text, ligatures, unicode_norm, whitespace, soft_hyphens, ocr_errors) ==
    LET t1 == IF ligatures THEN normalize_ligatures(text) ELSE text
        t2 == IF unicode_norm THEN normalize_unicode(t1) ELSE t1
        t3 == IF soft_hyphens THEN remove_soft_hyphens(t2) ELSE t2
        t4 == IF whitespace THEN clean_whitespace(t3) ELSE t3
        t5 == IF ocr_errors THEN fix_common_ocr_errors(t4) ELSE t4
    IN t5

NormalizeWith(text, o) ==
    normalize(text, o.ligatures, o.unicode_norm, o.whitespace,
              o.soft_hyphens, o.ocr_errors)

(***************************************************************************)
(* PDFChunker                                                              *)
(***************************************************************************)

Min(a, b) == IF a <= b THEN a ELSE b

Max(a, b) == IF a >= b THEN a ELSE b

MiB == 1024 * 1024

\* PDFChunker.__init__: chunk_size_bytes
chunk_size_bytes(chunk_size_mb) == chunk_size_mb * MiB

\* pages per chunk with the quotient rounded up
PagesPerChunkCeil(budget, file_size, total_pages) ==
    IF total_pages > 0
    THEN Max(1, (budget * total_pages + file_size - 1) \div file_size)
    ELSE Max(1, (budget + file_size - 1) \div file_size)

\* max(1, int(chunk_size_bytes / avg_page_size)) with
\* avg_page_size = file_size / total_pages (file_size when there is no page).
\* The quotient is taken exactly; the source divides in binary floating point.
PagesPerChunk(budget, file_size, total_pages) ==
    IF total_pages > 0
    THEN Max(1, (budget * total_pages) \div file_size)
    ELSE Max(1, budget \div file_size)

ChunkEndNoClamp(current_page, pages_per_chunk, total_pages) ==
    current_page + pages_per_chunk - 1

\* end_page = min(current_page + pages_per_chunk - 1, total_pages - 1)
ChunkEnd(current_page, pages_per_chunk, total_pages) ==
    Min(current_page + pages_per_chunk - 1, total_pages - 1)

\* the dictionary appended for one chunk; estimated_size_mb is the fraction
\* est_num / est_den = page_count * avg_page_size / (1024 * 1024)
ChunkInfo(current_page, end_page, file_size, total_pages) ==
    [start_page |-> current_page,
     end_page   |-> end_page,
     page_count |-> end_page - current_page + 1,
     est_num    |-> (end_page - current_page + 1) * file_size,
     est_den    |-> total_pages * MiB]

\* the whole while loop, for the callers of create_chunks
RECURSIVE ChunksFrom(_, _, _, _)
ChunksFrom(current_page, pages_per_chunk, file_size, total_pages) ==
    IF current_page < total_pages
    THEN LET e == ChunkEnd(current_page, pages_per_chunk, total_pages)
         IN <<ChunkInfo(current_page, e, file_size, total_pages)>>
            \o ChunksFrom(e + 1, pages_per_chunk, file_size, total_pages)
    ELSE <<>>

create_chunks(budget, file_size, total_pages) ==
    ChunksFrom(0, PagesPerChunk(budget, file_size, total_pages),
               file_size, total_pages)

(***************************************************************************)
(* TextFilter                                                              *)
(***************************************************************************)

IsDigit(c) == c \in {"0", "1", "2", "3", "4", "5", "6", "7", "8", "9"}

\* str.lower() on the alphabet: "P" is the one upper-case letter in it
Lower(c) == IF c = "P" THEN "p" ELSE c

LowerText(s) == [k \in 1..Len(s) |-> Lower(s[k])]

Range(s) == {s[k] : k \in 1..Len(s)}

\* index of the last character of the maximal digit run starting at i
RECURSIVE DigitRunEnd(_, _)
DigitRunEnd(s, i) ==
    IF i <= Len(s) /\ IsDigit(s[i]) THEN DigitRunEnd(s, i + 1) ELSE i - 1

\* the literal w occurs in s at index i
OccursAt(s, i, w) ==
    /\ i >= 1
    /\ i + Len(w) - 1 <= Len(s)
    /\ SubSeq(s, i, i + Len(w) - 1) = w

\* re.search(w, s) for a literal w
Contains(s, w) == \E i \in 1..Len(s) : OccursAt(s, i, w)

\* re.search(w + r'.*\d{4}', s): the literal, then four digits further on,
\* with no newline in between
ContainsThenYear(s, w) ==
    \E i \in 1..Len(s) :
        /\ OccursAt(s, i, w)
        /\ \E j \in (i + Len(w))..(Len(s) - 3) :
              /\ \A k \in j..(j + 3) : IsDigit(s[k])
              /\ \A k \in (i + Len(w))..(j - 1) : s[k] # "nl"

WordCopyright == <<"c", "o", "p", "y", "r", "i", "g", "h", "t">>

\* the five "all rights reserved" phrases of copyright_patterns
ReservedPhrases == {
    <<"a", "l", "l", "sp", "r", "i", "g", "h", "t", "s", "sp",
      "r", "e", "s", "e", "r", "v", "e", "d">>,
    <<"t", "u", "t", "t", "i", "sp", "i", "sp", "d", "i", "r", "i", "t", "t", "i",
      "sp", "r", "i", "s", "e", "r", "v", "a", "t", "i">>,
    <<"t", "o", "u", "s", "sp", "d", "r", "o", "i", "t", "s", "sp",
      "r", "e_acute", "s", "e", "r", "v", "e_acute", "s">>,
    <<"a", "l", "l", "e", "sp", "r", "e", "c", "h", "t", "e", "sp",
      "v", "o", "r", "b", "e", "h", "a", "l", "t", "e", "n">>,
    <<"t", "o", "d", "o", "s", "sp", "l", "o", "s", "sp", "d", "e", "r", "e", "c",
      "h", "o", "s", "sp", "r", "e", "s", "e", "r", "v", "a", "d", "o", "s">> }

is_copyright_line(line) ==
    LET line_lower == Strip(LowerText(line))
    IN \/ ContainsThenYear(line_lower, <<"(c)">>)
       \/ ContainsThenYear(line_lower, WordCopyright)
       \/ \E w \in ReservedPhrases : Contains(line_lower, w)

\* str.isdigit()
IsDigits(s) == s # <<>> /\ \A k \in 1..Len(s) : IsDigit(s[k])

\* re.match(r'^' + w + r'\s+\d+$', s, re.IGNORECASE)
MatchWordNumber(s, w) ==
    LET a == Len(w) + 1
        b == WsRunEnd(s, a)
        c == DigitRunEnd(s, b + 1)
    IN /\ OccursAt(LowerText(s), 1, w)
       /\ b >= a
       /\ c >= b + 1
       /\ c = Len(s)

\* re.match(r'^\d+\s*/\s*\d+$', s)
MatchNOfM(s) ==
    LET a == DigitRunEnd(s, 1)
        b == WsRunEnd(s, a + 1)
        c == WsRunEnd(s, b + 2)
        d == DigitRunEnd(s, c + 1)
    IN /\ a >= 1
       /\ b + 1 <= Len(s) /\ s[b + 1] = "/"
       /\ d >= c + 1
       /\ d = Len(s)

\* re.match(r'^-\s*\d+\s*-$', s)
MatchDashed(s) ==
    LET b == WsRunEnd(s, 2)
        c == DigitRunEnd(s, b + 1)
        d == WsRunEnd(s, c + 1)
    IN /\ Len(s) >= 1 /\ s[1] = "-"
       /\ c >= b + 1
       /\ d + 1 = Len(s) /\ s[d + 1] = "-"

is_page_number(line) ==
    LET line_stripped == Strip(line)
    IN \/ IsDigits(line_stripped)
       \/ MatchWordNumber(line_stripped, <<"p", "a", "g", "e">>)
       \/ MatchWordNumber(line_stripped, <<"p", "a", "g", "i", "n", "a">>)
       \/ MatchNOfM(line_stripped)
       \/ MatchDashed(line_stripped)

\* lines of this trimmed length or more are never counted
MaxRepetitiveLineLen == 200

\* unique_lines = set(page.split('\n')): the distinct lines as they stand
UniqueLines(page) == Range(SplitLines(page))

\* the pages of a document on which some line trims to l
PagesContaining(pages, l) ==
    {k \in 1..Len(pages) : \E line \in UniqueLines(pages[k]) : Strip(line) = l}

\* what one page adds to line_counter[l]: one for every distinct line of the
\* page that trims to l
PageTally(page, l) ==
    Cardinality({line \in UniqueLines(page) : Strip(line) = l})

RECURSIVE LineCount(_, _)
LineCount(pages, l) ==
    IF pages = <<>> THEN 0
    ELSE PageTally(pages[1], l) + LineCount(Tail(pages), l)

\* the keys of line_counter
CountedLines(pages) ==
    {l \in UNION {{Strip(line) : line \in UniqueLines(pages[k])} : k \in 1..Len(pages)} :
        l # <<>> /\ Len(l) < MaxRepetitiveLineLen}

\* count >= max(min_repetition_threshold, total_pages * 0.05), in hundredths
\* (the source multiplies in binary floating point)
ReachesThreshold(count, min_threshold, total_pages) ==
    /\ count >= min_threshold
    /\ count * 100 >= total_pages * 5

detect_repetitive_lines(pages, min_threshold) ==
    {l \in CountedLines(pages) :
        ReachesThreshold(LineCount(pages, l), min_threshold, Len(pages))}

\* the four tests of the loop of filter_page: is the line kept?
KeepsLine(line, repetitive_lines, remove_copyright) ==
    /\ Strip(line) # <<>>
    /\ Strip(line) \notin repetitive_lines
    /\ ~(remove_copyright /\ is_copyright_line(line))
    /\ ~is_page_number(line)

filter_page(page_text, repetitive_lines, remove_copyright) ==
    LET filtered_lines ==
            SelectSeq(SplitLines(page_text),
                      LAMBDA line : KeepsLine(line, repetitive_lines, remove_copyright))
    IN Strip(SubBlankLines(JoinLines(filtered_lines), 1))

KeepsEveryPage(filtered) == TRUE

\* if filtered: only a non-empty page text is appended
KeepsPage(filtered) == filtered # <<>>

\* the loop of filter_document over the pages
RECURSIVE FilterPages(_, _, _)
FilterPages(pages, repetitive_lines, remove_copyright) ==
    IF pages = <<>> THEN <<>>
    ELSE LET filtered == filter_page(pages[1], repetitive_lines, remove_copyright)
         IN (IF KeepsPage(filtered) THEN <<filtered>> ELSE <<>>)
            \o FilterPages(Tail(pages), repetitive_lines, remove_copyright)

\* if min_threshold: None (written <<>>) and 0 leave the field alone;
\* an argument n is written <<n>>
ThresholdAfter(field, min_threshold) ==
    IF min_threshold # <<>> /\ min_threshold[1] # 0 THEN min_threshold[1] ELSE field

\* the set filter_document filters with
RepetitiveFor(pages, remove_repetitive, threshold) ==
    IF remove_repetitive THEN detect_repetitive_lines(pages, threshold) ELSE {}

(***************************************************************************)
(* PDFProcessor                                                            *)
(***************************************************************************)

\* embedded text whose trimmed length is below this goes to OCR
OcrThreshold == 50

NeedsOcrUpTo(use_ocr, text) == use_ocr /\ Len(Strip(text)) <= OcrThreshold

\* if use_ocr and len(text.strip()) < 50
NeedsOcr(use_ocr, text) == use_ocr /\ Len(Strip(text)) < OcrThreshold

OcrErrorCaughtIfRender(kind) == kind = "render_error"

\* _ocr_page: except Exception covers get_pixmap, the PNG conversion and
\* image_to_string alike
OcrErrorCaught(kind) == kind \in {"render_error", "recognition_error"}

\* what _ocr_page returns when it returns
ocr_page(outcome) == IF outcome.kind = "text" THEN outcome.text ELSE <<>>

\* _extract_page_text, given the text the page holds and what OCR does
extract_page_text(embedded, use_ocr, outcome) ==
    LET text == IF NeedsOcr(use_ocr, embedded) THEN ocr_page(outcome) ELSE embedded
    IN normalize(text, TRUE, TRUE, TRUE, TRUE, FALSE)

\* the reverse of the marker loop's order
MarkedPagesDescending(page_texts, start_page) ==
    LET es == SelectSeq([k \in 1..Len(page_texts) |->
                            [marker |-> start_page + (k - 1) + 1,
                             text |-> page_texts[k]]],
                        LAMBDA e : Strip(e.text) # <<>>)
    IN [j \in 1..Len(es) |-> es[Len(es) + 1 - j]]

\* the loops that add page markers: enumerate(page_texts), blank texts skipped;
\* an element stands for "--- Page <marker> ---\n<text>"
MarkedPages(page_texts, start_page) ==
    SelectSeq([k \in 1..Len(page_texts) |->
                  [marker |-> start_page + (k - 1) + 1, text |-> page_texts[k]]],
              LAMBDA e : Strip(e.text) # <<>>)

\* the filtering step of both extraction functions
FilteredTexts(page_texts, o, threshold) ==
    IF o.remove_repetitive \/ o.remove_copyright
    THEN FilterPages(page_texts,
                     RepetitiveFor(page_texts, o.remove_repetitive, threshold),
                     o.remove_copyright)
    ELSE page_texts

RECURSIVE NumDigits(_)
NumDigits(n) == IF n < 10 THEN 1 ELSE 1 + NumDigits(n \div 10)

\* len of "\n\n".join of the marked pages
RECURSIVE MarkedLen(_)
MarkedLen(es) ==
    IF es = <<>> THEN 0
    ELSE 9 + NumDigits(es[1].marker) + 5 + Len(es[1].text)
         + (IF Len(es) > 1 THEN 2 ELSE 0) + MarkedLen(Tail(es))

\* len of "\n\n".join(all_text)
RECURSIVE CombinedLen(_)
CombinedLen(units) ==
    IF units = <<>> THEN 0
    ELSE MarkedLen(units[1]) + (IF Len(units) > 1 THEN 2 ELSE 0)
         + CombinedLen(Tail(units))

\* the percentage cut off after two decimals, in hundredths
ProgressTruncated(num, den) == (num * 10000) \div den

\* round(x, 2) of the percentage 100 * num / den, in hundredths
ProgressHundredths(num, den) == (2 * num * 10000 + den) \div (2 * den)

(***************************************************************************)
(* Spec: one request, from the upload to the response                      *)
(***************************************************************************)

MaxDocPages == 3
MaxUploadMb == 4

\* MAX_FILE_SIZE_MB and CHUNK_SIZE_MB of the environment
MaxFileSizeConfigs == {3}
ChunkSizeConfigs == {2}

\* Repeat(c, n): n times the character c
Repeat(c, n) == [k \in 1..n |-> c]

\* text layers of a page: none; 49 characters between two spaces; 50
\* characters; a header line, flush and indented, above 50 characters
EmbeddedSamples == {
    <<>>,
    <<"sp">> \o Repeat("x", OcrThreshold - 1) \o <<"sp">>,
    Repeat("x", OcrThreshold),
    <<"h", "nl", "sp", "h", "nl">> \o Repeat("x", OcrThreshold) }

\* what OCR of a page can do: recognise text, or fail in one of its two stages
OcrOutcomes == {[kind |-> "text", text |-> <<"o">>],
                [kind |-> "render_error", text |-> <<>>],
                [kind |-> "recognition_error", text |-> <<>>]}

NoOcr == [kind |-> "unused", text |-> <<>>]

Options == [use_ocr : BOOLEAN, chunk_processing : BOOLEAN,
            remove_repetitive : BOOLEAN, remove_copyright : BOOLEAN]

Init ==
    /\ NormIdle /\ ChunkIdle /\ FilterIdle
    /\ r_endpoint \in {"extract", "stream"}
    /\ r_pdf_name \in BOOLEAN
    /\ r_upload_mb \in 1..MaxUploadMb
    /\ r_max_file_size_mb \in MaxFileSizeConfigs
    /\ opts \in Options
    \* /extract-stream takes use_ocr and language only
    /\ (r_endpoint = "stream") =>
          opts.chunk_processing /\ opts.remove_repetitive /\ opts.remove_copyright
    /\ p_chunk_size_mb \in ChunkSizeConfigs
    /\ p_doc_pages \in 0..MaxDocPages
    /\ r_total_size = 0
    /\ r_written = 0
    /\ r_file_exists = FALSE
    /\ r_status = 0
    /\ r_pc = "start"
    /\ p_open_docs = 0
    /\ p_chunks = <<>>
    /\ p_chunks_processed = 0
    /\ p_start_page = 0
    /\ p_end_page = 0
    /\ p_page_num = 0
    /\ p_page_texts = <<>>
    /\ p_all_text = <<>>
    /\ p_total_pages = 0
    /\ p_result = <<>>
    /\ p_error = "none"
    /\ p_pc = "idle"
    /\ s_emitted = <<>>
    /\ h_pages = <<>>
    /\ h_unit = <<>>

uploadVars == <<r_total_size, r_written>>
fileVars == <<r_file_exists, r_status>>
unitVars == <<p_start_page, p_end_page, p_page_num, p_page_texts>>
chunkedVars == <<p_chunks, p_chunks_processed, p_all_text, p_total_pages>>
historyVars == <<h_pages, h_unit>>

\* routes.py 45-46 and 115-116: a file name that does not end in .pdf
RejectNotPdf ==
    /\ r_pc = "start"
    /\ ~r_pdf_name
    /\ r_status' = 400
    /\ r_pc' = "rejected"
    /\ UNCHANGED <<requestVars, uploadVars, r_file_exists, p_open_docs, unitVars,
                   chunkedVars, p_result, p_error, p_pc, s_emitted, historyVars,
                   notPipe>>

\* aiofiles.open(file_path, 'wb') creates the file
CreateUploadFile ==
    /\ r_pc = "start"
    /\ r_pdf_name
    /\ r_file_exists' = TRUE
    /\ r_total_size' = 0
    /\ r_written' = 0
    /\ r_pc' = "upload"
    /\ UNCHANGED <<requestVars, r_status, p_open_docs, unitVars, chunkedVars,
                   p_result, p_error, p_pc, s_emitted, historyVars, notPipe>>

\* one pass of the read loop: up to 1 MiB; /extract checks the running total
\* and on excess unlinks and raises 413, which its own except clause turns
\* into 500 (the file is gone by then)
UploadRead ==
    /\ r_pc = "upload"
    /\ r_written < r_upload_mb * MiB
    /\ LET content == Min(MiB, r_upload_mb * MiB - r_written)
       IN IF r_endpoint = "extract"
             /\ r_total_size + content > r_max_file_size_mb * MiB
          THEN /\ r_total_size' = r_total_size + content
               /\ r_file_exists' = FALSE
               /\ r_status' = 500
               /\ r_pc' = "failed"
               /\ UNCHANGED r_written
          ELSE /\ r_total_size' = r_total_size + content
               /\ r_written' = r_written + content
               /\ UNCHANGED <<fileVars, r_pc>>
    /\ UNCHANGED <<requestVars, p_open_docs, unitVars, chunkedVars, p_result,
                   p_error, p_pc, s_emitted, historyVars, notPipe>>

\* the read returns nothing more: /extract calls process_pdf, which picks the
\* mode (lines 69-74); /extract-stream returns the StreamingResponse
UploadDone ==
    /\ r_pc = "upload"
    /\ r_written = r_upload_mb * MiB
    /\ r_pc' = "processing"
    /\ IF r_endpoint = "stream"
       THEN /\ p_pc' = "stream_open"
            /\ r_status' = 200
       ELSE /\ p_pc' = IF opts.chunk_processing /\ r_written > p_chunk_size_mb * MiB
                       THEN "create_chunks" ELSE "open_whole"
            /\ UNCHANGED r_status
    /\ UNCHANGED <<requestVars, uploadVars, r_file_exists, p_open_docs, unitVars,
                   chunkedVars, p_result, p_error, s_emitted, historyVars, notPipe>>

\* an exception leaves process_pdf: the except clause of /extract unlinks the
\* file and answers 500
RaiseInExtract(stage) ==
    /\ p_error' = stage
    /\ p_pc' = "raised"
    /\ r_file_exists' = FALSE
    /\ r_status' = 500
    /\ r_pc' = "failed"

\* an exception leaves process_pdf_stream and generate(): nothing catches it
\* there, the response breaks off
RaiseInStream(stage) ==
    /\ p_error' = stage
    /\ p_pc' = "raised"
    /\ r_pc' = "failed"
    /\ UNCHANGED fileVars

\* _process_chunked 107-110: create_chunks opens and closes the document
CreateChunks ==
    /\ p_pc = "create_chunks"
    /\ p_chunks' = create_chunks(chunk_size_bytes(p_chunk_size_mb), r_written,
                                 p_doc_pages)
    /\ p_all_text' = <<>>
    /\ p_total_pages' = 0
    /\ p_chunks_processed' = 0
    /\ p_pc' = "next_chunk"
    /\ UNCHANGED <<requestVars, uploadVars, fileVars, r_pc, p_open_docs, unitVars,
                   p_result, p_error, s_emitted, historyVars, notPipe>>

\* fitz.open raises inside create_chunks
CreateChunksFails ==
    /\ p_pc = "create_chunks"
    /\ RaiseInExtract("open")
    /\ UNCHANGED <<requestVars, uploadVars, p_open_docs, unitVars, chunkedVars,
                   p_result, s_emitted, historyVars, notPipe>>

\* the for loop of _process_chunked takes the next chunk and calls
\* _process_page_range
NextChunk ==
    /\ p_pc = "next_chunk"
    /\ p_chunks_processed < Len(p_chunks)
    /\ p_start_page' = p_chunks[p_chunks_processed + 1].start_page
    /\ p_end_page' = p_chunks[p_chunks_processed + 1].end_page
    /\ p_pc' = "open_range"
    /\ UNCHANGED <<requestVars, uploadVars, fileVars, r_pc, p_open_docs,
                   p_page_num, p_page_texts, chunkedVars, p_result, p_error,
                   s_emitted, historyVars, notPipe>>

\* _process_chunked 130-141 returns; /extract unlinks the file and answers
ReturnChunked ==
    /\ p_pc = "next_chunk"
    /\ p_chunks_processed = Len(p_chunks)
    /\ p_result' = <<[text |-> p_all_text,
                      pages |-> p_total_pages,
                      total_chars |-> CombinedLen(p_all_text),
                      chunks_processed |-> p_chunks_processed,
                      file_size |-> r_written,
                      chunked |-> TRUE]>>
    /\ p_pc' = "returned"
    /\ r_file_exists' = FALSE
    /\ r_status' = 200
    /\ r_pc' = "responded"
    /\ UNCHANGED <<requestVars, uploadVars, p_open_docs, unitVars, chunkedVars,
                   p_error, s_emitted, historyVars, notPipe>>

\* fitz.open at the head of _extract_text_sync / _extract_text_range_sync
OpenDocument ==
    /\ p_pc \in {"open_whole", "open_range"}
    /\ p_open_docs' = p_open_docs + 1
    /\ p_page_texts' = <<>>
    /\ IF p_pc = "open_whole"
       THEN /\ p_start_page' = 0
            /\ p_end_page' = p_doc_pages - 1
            /\ p_total_pages' = p_doc_pages
            /\ p_page_num' = 0
            /\ p_pc' = "pages_whole"
       ELSE /\ p_page_num' = p_start_page
            /\ p_pc' = "pages_range"
            /\ UNCHANGED <<p_start_page, p_end_page, p_total_pages>>
    /\ UNCHANGED <<requestVars, uploadVars, fileVars, r_pc, p_chunks,
                   p_chunks_processed, p_all_text, p_result, p_error, s_emitted,
                   historyVars, notPipe>>

OpenDocumentFails ==
    /\ p_pc \in {"open_whole", "open_range"}
    /\ RaiseInExtract("open")
    /\ UNCHANGED <<requestVars, uploadVars, p_open_docs, unitVars, chunkedVars,
                   p_result, s_emitted, historyVars, notPipe>>

\* range(total_pages) / range(start_page, min(end_page + 1, doc.page_count))
PageLimit == Min(p_end_page + 1, p_doc_pages)

PageEntry(embedded, outcome) ==
    [index |-> p_page_num,
     embedded |-> embedded,
     ocr |-> NeedsOcr(opts.use_ocr, embedded),
     outcome |-> outcome.kind,
     ocr_text |-> outcome.text,
     text |-> extract_page_text(embedded, opts.use_ocr, outcome)]

\* one pass of the page loop: doc[page_num], then _extract_page_text
ExtractPage ==
    /\ p_pc \in {"pages_whole", "pages_range"}
    /\ p_page_num < PageLimit
    /\ \E embedded \in EmbeddedSamples :
       \E outcome \in (IF NeedsOcr(opts.use_ocr, embedded)
                       THEN OcrOutcomes ELSE {NoOcr}) :
          IF outcome.kind \in {"render_error", "recognition_error"}
             /\ ~OcrErrorCaught(outcome.kind)
          THEN /\ RaiseInExtract("ocr")
               /\ UNCHANGED <<p_page_num, p_page_texts, historyVars>>
          ELSE /\ p_page_texts' =
                     Append(p_page_texts, PageEntry(embedded, outcome).text)
               /\ h_pages' = Append(h_pages, PageEntry(embedded, outcome))
               /\ p_page_num' = p_page_num + 1
               /\ UNCHANGED <<fileVars, r_pc, p_error, p_pc, h_unit>>
    /\ UNCHANGED <<requestVars, uploadVars, p_open_docs, p_start_page, p_end_page,
                   chunkedVars, p_result, s_emitted, notPipe>>

\* doc[page_num] or page.get_text() raises: nothing closes the document
ReadPageFails ==
    /\ p_pc \in {"pages_whole", "pages_range"}
    /\ p_page_num < PageLimit
    /\ RaiseInExtract("read")
    /\ UNCHANGED <<requestVars, uploadVars, p_open_docs, unitVars, chunkedVars,
                   p_result, s_emitted, historyVars, notPipe>>

UnitRecord(start_page, filtered) ==
    [start_page |-> start_page,
     page_texts |-> p_page_texts,
     filtered |-> filtered,
     marked |-> MarkedPages(filtered, start_page)]

\* _extract_text_sync 186-212: close, filter, mark, return; /extract then
\* unlinks the file and answers
FinishWhole ==
    /\ p_pc = "pages_whole"
    /\ p_page_num >= PageLimit
    /\ LET filtered == FilteredTexts(p_page_texts, opts, f_min_repetition_threshold)
           marked == MarkedPages(filtered, 0)
       IN /\ p_page_texts' = filtered
          /\ h_unit' = <<UnitRecord(0, filtered)>>
          /\ p_result' = <<[text |-> <<marked>>,
                            pages |-> p_total_pages,
                            total_chars |-> MarkedLen(marked),
                            file_size |-> r_written,
                            chunked |-> FALSE]>>
    /\ p_open_docs' = p_open_docs - 1
    /\ p_pc' = "returned"
    /\ r_file_exists' = FALSE
    /\ r_status' = 200
    /\ r_pc' = "responded"
    /\ UNCHANGED <<requestVars, uploadVars, p_start_page, p_end_page, p_page_num,
                   chunkedVars, p_error, s_emitted, h_pages, notPipe>>

\* _extract_text_range_sync 234-257, then _process_chunked 126-128
FinishRange ==
    /\ p_pc = "pages_range"
    /\ p_page_num >= PageLimit
    /\ LET filtered == FilteredTexts(p_page_texts, opts, f_min_repetition_threshold)
           marked == MarkedPages(filtered, p_start_page)
       IN /\ p_page_texts' = filtered
          /\ h_unit' = <<UnitRecord(p_start_page, filtered)>>
          /\ p_all_text' = Append(p_all_text, marked)
    /\ p_total_pages' = p_total_pages + (p_end_page - p_start_page + 1)
    /\ p_chunks_processed' = p_chunks_processed + 1
    /\ p_open_docs' = p_open_docs - 1
    /\ p_pc' = "next_chunk"
    /\ UNCHANGED <<requestVars, uploadVars, fileVars, r_pc, p_start_page,
                   p_end_page, p_page_num, p_chunks, p_result, p_error,
                   s_emitted, h_pages, notPipe>>

\* process_pdf_stream 311-312: fitz.open inside the generator
StreamOpen ==
    /\ p_pc = "stream_open"
    /\ p_open_docs' = p_open_docs + 1
    /\ p_total_pages' = p_doc_pages
    /\ p_start_page' = 0
    /\ p_end_page' = p_doc_pages - 1
    /\ p_page_num' = 0
    /\ p_pc' = "stream_pages"
    /\ UNCHANGED <<requestVars, uploadVars, fileVars, r_pc, p_page_texts, p_chunks,
                   p_chunks_processed, p_all_text, p_result, p_error, s_emitted,
                   historyVars, notPipe>>

StreamOpenFails ==
    /\ p_pc = "stream_open"
    /\ RaiseInStream("open")
    /\ UNCHANGED <<requestVars, uploadVars, p_open_docs, unitVars, chunkedVars,
                   p_result, s_emitted, historyVars, notPipe>>

\* process_pdf_stream 314-332: one page is extracted and yielded; the
\* generator then rests at the yield
StreamPage ==
    /\ p_pc = "stream_pages"
    /\ p_page_num < p_total_pages
    /\ \E embedded \in EmbeddedSamples :
       \E outcome \in (IF NeedsOcr(opts.use_ocr, embedded)
                       THEN OcrOutcomes ELSE {NoOcr}) :
          IF outcome.kind \in {"render_error", "recognition_error"}
             /\ ~OcrErrorCaught(outcome.kind)
          THEN /\ RaiseInStream("ocr")
               /\ UNCHANGED <<p_page_num, s_emitted, historyVars>>
          ELSE /\ s_emitted' = Append(s_emitted,
                     [page |-> p_page_num + 1,
                      total_pages |-> p_total_pages,
                      text |-> PageEntry(embedded, outcome).text,
                      progress |-> ProgressHundredths(p_page_num + 1, p_total_pages)])
               /\ h_pages' = Append(h_pages, PageEntry(embedded, outcome))
               /\ p_page_num' = p_page_num + 1
               /\ UNCHANGED <<fileVars, r_pc, p_error, p_pc, h_unit>>
    /\ UNCHANGED <<requestVars, uploadVars, p_open_docs, p_start_page, p_end_page,
                   p_page_texts, chunkedVars, p_result, notPipe>>

StreamReadFails ==
    /\ p_pc = "stream_pages"
    /\ p_page_num < p_total_pages
    /\ RaiseInStream("read")
    /\ UNCHANGED <<requestVars, uploadVars, p_open_docs, unitVars, chunkedVars,
                   p_result, s_emitted, historyVars, notPipe>>

\* the client goes away while the generator rests at a yield: the generator
\* is closed there and the statements after the loops never run
ConsumerAbandons ==
    /\ p_pc = "stream_pages"
    /\ s_emitted # <<>>
    /\ p_pc' = "closed_at_yield"
    /\ r_pc' = "abandoned"
    /\ UNCHANGED <<requestVars, uploadVars, fileVars, p_open_docs, unitVars,
                   chunkedVars, p_result, p_error, s_emitted, historyVars, notPipe>>

\* the loop is over: doc.close() (line 334), then generate() unlinks the file
StreamFinish ==
    /\ p_pc = "stream_pages"
    /\ p_page_num >= p_total_pages
    /\ p_open_docs' = p_open_docs - 1
    /\ p_pc' = "returned"
    /\ r_file_exists' = FALSE
    /\ r_pc' = "responded"
    /\ UNCHANGED <<requestVars, uploadVars, r_status, unitVars, chunkedVars,
                   p_result, p_error, s_emitted, historyVars, notPipe>>

Next ==
    \/ RejectNotPdf
    \/ CreateUploadFile
    \/ UploadRead
    \/ UploadDone
    \/ CreateChunks
    \/ CreateChunksFails
    \/ NextChunk
    \/ ReturnChunked
    \/ OpenDocument
    \/ OpenDocumentFails
    \/ ExtractPage
    \/ ReadPageFails
    \/ FinishWhole
    \/ FinishRange
    \/ StreamOpen
    \/ StreamOpenFails
    \/ StreamPage
    \/ StreamReadFails
    \/ ConsumerAbandons
    \/ StreamFinish

Spec == Init /\ [][Next]_vars

\* the request is over: answered, failed, or left by the client
RequestOver == r_pc \in {"rejected", "responded", "failed", "abandoned"}

\* C2: every document-processing call has closed the document handle it
\* opened by the time it is over, whether it returned, raised, or (when
\* streaming) was left by the consumer before the last page.
C2_DocumentClosedOnEveryExit == RequestOver => (p_open_docs = 0)

\* the final text of page k of a unit, and the pages of the unit that survive
UnitFinalText(u, k) ==
    IF opts.remove_repetitive \/ opts.remove_copyright
    THEN filter_page(u.page_texts[k],
                     RepetitiveFor(u.page_texts, opts.remove_repetitive,
                                   f_min_repetition_threshold),
                     opts.remove_copyright)
    ELSE u.page_texts[k]

UnitSurvivors(u) ==
    SelectSeq([k \in 1..Len(u.page_texts) |-> k],
              LAMBDA k : Strip(UnitFinalText(u, k)) # <<>>)

\* C3: in the text of a finished unit (whole document or chunk) the marker
\* of every surviving page is that page's own number in the document, its
\* 0-based index + 1, also for pages that follow a dropped page.
C3_MarkerIsOriginalPageNumber ==
    \A n \in 1..Len(h_unit) :
        LET u == h_unit[n]
        IN /\ Len(u.marked) = Len(UnitSurvivors(u))
           /\ \A j \in 1..Len(u.marked) :
                 u.marked[j].marker = u.start_page + (UnitSurvivors(u)[j] - 1) + 1

\* C7: OCR is invoked on a page exactly when use_ocr is set and the trimmed
\* embedded text has fewer than 50 characters; then the embedded text is
\* discarded, otherwise it is the text that is normalized.
C7_OcrIffEnabledAndShort ==
    \A k \in 1..Len(h_pages) :
        LET pg == h_pages[k]
        IN /\ pg.ocr = (opts.use_ocr /\ Len(Strip(pg.embedded)) < 50)
           /\ (pg.outcome # "unused") = pg.ocr
           /\ pg.ocr => (pg.text = normalize(pg.ocr_text, TRUE, TRUE, TRUE, TRUE, FALSE))
           /\ ~pg.ocr => (pg.text = normalize(pg.embedded, TRUE, TRUE, TRUE, TRUE, FALSE))

\* with OCR enabled: a page of trimmed length 49 went to OCR and lost its
\* embedded text, a page of trimmed length 50 did not
C7_Witness ==
    /\ opts.use_ocr
    /\ \E k \in 1..Len(h_pages) :
          /\ Len(Strip(h_pages[k].embedded)) = 49
          /\ h_pages[k].ocr
          /\ h_pages[k].text = <<"o">>
    /\ \E k \in 1..Len(h_pages) :
          /\ Len(Strip(h_pages[k].embedded)) = 50
          /\ ~h_pages[k].ocr

\* C8: a failing OCR recognition does not abort: the page's text is empty,
\* no error is raised for it, the pages after it are extracted, and a call
\* that meets no other failure returns its result with every page extracted.
C8_OcrFailureDegradesPage ==
    /\ \A k \in 1..Len(h_pages) :
          (h_pages[k].outcome = "recognition_error") => (h_pages[k].text = <<>>)
    /\ p_error \in {"none", "open", "read"}
    /\ (r_pc = "responded") =>
          /\ Len(h_pages) = p_doc_pages
          /\ \A k \in 1..Len(h_pages) : h_pages[k].index = k - 1
          /\ (r_endpoint = "extract") => (p_result # <<>>)

\* a returned result for a document whose first page failed in OCR
\* recognition and whose second page was extracted with text
C8_Witness ==
    /\ r_endpoint = "extract"
    /\ r_pc = "responded"
    /\ p_result # <<>>
    /\ Len(h_pages) >= 2
    /\ h_pages[1].outcome = "recognition_error"
    /\ h_pages[1].text = <<>>
    /\ h_pages[2].text # <<>>

\* C9: only a failing OCR recognition is recovered locally: when the document
\* cannot be opened or read, or a page cannot be rendered, the process call
\* ends in an error and returns no result, partial or full.
C9_OnlyRecognitionRecovered ==
    /\ (p_error # "none") => (p_result = <<>> /\ r_pc = "failed")
    /\ (\E k \in 1..Len(h_pages) : h_pages[k].outcome = "render_error") =>
          (r_pc # "responded" /\ p_result = <<>>)

\* C10: whatever the outcome of a request to either endpoint, once it is over
\* the uploaded temporary file is gone.
C10_TempFileDeleted == RequestOver => ~r_file_exists

\* the page markers of a list of marked pages, in output order
MarkersOf(es) == [j \in 1..Len(es) |-> es[j].marker]

StrictlyAscending(ns) == \A j \in 1..(Len(ns) - 1) : ns[j] < ns[j + 1]

\* C11: pages are extracted in strictly ascending page-index order and appear
\* in the output in that order; in chunked mode one chunk is in progress at a
\* time, it is the chunk after the ones whose texts were obtained, and the
\* texts are concatenated in chunk order.
C11_PagesAndChunksInOrder ==
    /\ StrictlyAscending([k \in 1..Len(h_pages) |-> h_pages[k].index])
    /\ \A n \in 1..Len(h_unit) : StrictlyAscending(MarkersOf(h_unit[n].marked))
    /\ p_open_docs <= 1
    /\ Len(p_all_text) = p_chunks_processed
    /\ p_chunks_processed <= Len(p_chunks)
    /\ \A j \in 1..Len(p_all_text) :
          /\ StrictlyAscending(MarkersOf(p_all_text[j]))
          /\ \A e \in 1..Len(p_all_text[j]) :
                /\ p_all_text[j][e].marker >= p_chunks[j].start_page + 1
                /\ p_all_text[j][e].marker <= p_chunks[j].end_page + 1
    /\ (p_pc \in {"open_range", "pages_range"}) =>
          /\ p_chunks_processed < Len(p_chunks)
          /\ p_start_page = p_chunks[p_chunks_processed + 1].start_page
          /\ p_end_page = p_chunks[p_chunks_processed + 1].end_page
          /\ \A k \in 1..Len(h_pages) : h_pages[k].index < p_page_num \/ p_pc = "open_range"
    /\ (p_result # <<>> /\ p_result[1].chunked) =>
          /\ p_result[1].text = p_all_text
          /\ p_result[1].chunks_processed = Len(p_chunks)

\* a chunked call that returned two chunks' texts, the first with two pages
\* in the output and the second with one
C11_Witness ==
    /\ r_pc = "responded"
    /\ p_result # <<>>
    /\ p_result[1].chunked
    /\ Len(p_result[1].text) = 2
    /\ Len(p_result[1].text[1]) = 2
    /\ Len(p_result[1].text[2]) = 1
    /\ Len(h_pages) = 3

\* C16: in chunked mode a line is removed from a chunk's pages as repetitive
\* only if it is on at least max(3, 5% of the chunk's pages) pages of that
\* chunk: a line that passes the other tests and is on fewer pages of the
\* chunk is still in the chunk's filtered pages, so a chunk of fewer than 3
\* pages loses no line to repetition.
C16_RepetitionCountedWithinChunk ==
    \A n \in 1..Len(h_unit) :
        LET u == h_unit[n]
        IN (p_chunks # <<>> /\ opts.remove_repetitive) =>
              \A k \in 1..Len(u.page_texts) :
              \A line \in UniqueLines(u.page_texts[k]) :
                  (/\ KeepsLine(line, {}, opts.remove_copyright)
                   /\ \/ Cardinality(PagesContaining(u.page_texts, Strip(line))) < 3
                      \/ Cardinality(PagesContaining(u.page_texts, Strip(line))) * 100
                            < Len(u.page_texts) * 5)
                  => \E j \in 1..Len(u.filtered) :
                     \E kept \in UniqueLines(u.filtered[j]) : Strip(kept) = Strip(line)

\* SpecStream: the requests to /extract-stream alone. The event loop keeps
\* running the request's coroutine and the response's generator: a step that
\* can be taken is taken. A step can be taken exactly while the request is not
\* over, so weak fairness of StreamNext, []<>~ENABLED <<StreamNext>>_vars \/
\* []<><<StreamNext>>_vars, is stated with RequestOver for the first disjunct.
StreamInit == Init /\ r_endpoint = "stream"

StreamNext ==
    \/ RejectNotPdf
    \/ CreateUploadFile
    \/ UploadRead
    \/ UploadDone
    \/ StreamOpen
    \/ StreamOpenFails
    \/ StreamPage
    \/ StreamReadFails
    \/ ConsumerAbandons
    \/ StreamFinish

StreamFairness == []<>RequestOver \/ []<><<StreamNext>>_vars

SpecStream == StreamInit /\ [][StreamNext]_vars /\ StreamFairness

\* what the stream has emitted so far: result i is page i of p_doc_pages, its
\* progress is 100 * i / p_doc_pages to the nearest hundredth
StreamShape ==
    /\ Len(s_emitted) <= p_doc_pages
    /\ \A i \in 1..Len(s_emitted) :
          /\ s_emitted[i].page = i
          /\ s_emitted[i].total_pages = p_doc_pages
          /\ s_emitted[i].text = h_pages[i].text
          /\ 2 * s_emitted[i].progress * p_doc_pages - 2 * i * 10000 <= p_doc_pages
          /\ 2 * i * 10000 - 2 * s_emitted[i].progress * p_doc_pages <= p_doc_pages
          /\ (i > 1) => (s_emitted[i - 1].progress <= s_emitted[i].progress)
          /\ (i = p_doc_pages) => (s_emitted[i].progress = 100 * 100)
    /\ (r_endpoint = "stream" /\ r_pc = "responded") => (Len(s_emitted) = p_doc_pages)
    /\ (r_endpoint = "stream" /\ RequestOver /\ ~(r_pc = "responded")) =>
          (r_pc = "rejected" \/ r_pc = "abandoned" \/ p_error # "none")

\* C12: for a document of P pages the stream emits result i with page = i and
\* total_pages = P, progress non-decreasing and 100 on the last one; unless a
\* fatal error or the client ends it first, it terminates after exactly P
\* results, for P = 0 after none.
C12_StreamEmitsEachPageThenEnds ==
    /\ []StreamShape
    /\ (p_pc = "stream_open") ~> RequestOver

\* a finished stream of three results whose progress is 33.33, 66.67, 100
C12_Witness ==
    /\ r_endpoint = "stream"
    /\ r_pc = "responded"
    /\ p_doc_pages = 3
    /\ Len(s_emitted) = 3
    /\ s_emitted[1].progress = 3333
    /\ s_emitted[2].progress = 6667
    /\ s_emitted[3].progress = 10000

\* a stream over a document without pages ends with nothing emitted
C12_WitnessNoPages ==
    /\ r_endpoint = "stream"
    /\ r_pc = "responded"
    /\ p_doc_pages = 0
    /\ s_emitted = <<>>

(***************************************************************************)
(* SpecChunk: create_chunks, one loop iteration per step                   *)
(***************************************************************************)

MaxChunkPages == 4
MaxFileMb == 12
MaxChunkMb == 10
\* int(os.getenv("CHUNK_SIZE_MB")) takes any integer, zero and negatives too
NonPositiveChunkMb == {-1, 0}

ChunkInit ==
    /\ NormIdle /\ FilterIdle /\ PipeIdle
    /\ c_doc_pages \in 0..MaxChunkPages
    /\ c_file_size \in {m * MiB : m \in 1..MaxFileMb}
    /\ c_chunk_size_mb \in NonPositiveChunkMb \cup 1..MaxChunkMb
    /\ c_doc_open = FALSE
    /\ c_total_pages = 0
    /\ c_pages_per_chunk = 0
    /\ c_chunks = <<>>
    /\ c_current_page = 0
    /\ c_pc = "start"

\* lines 34-43: open, read the page count and the size, derive pages_per_chunk
CreateChunksEnter ==
    /\ c_pc = "start"
    /\ c_doc_open' = TRUE
    /\ c_total_pages' = c_doc_pages
    /\ c_pages_per_chunk' =
           PagesPerChunk(chunk_size_bytes(c_chunk_size_mb), c_file_size, c_doc_pages)
    /\ c_chunks' = <<>>
    /\ c_current_page' = 0
    /\ c_pc' = "loop"
    /\ UNCHANGED <<c_doc_pages, c_file_size, c_chunk_size_mb, notChunk>>

\* lines 45-55: one iteration of the while loop
CreateChunksStep ==
    /\ c_pc = "loop"
    /\ c_current_page < c_total_pages
    /\ LET e == ChunkEnd(c_current_page, c_pages_per_chunk, c_total_pages)
       IN /\ c_chunks' = Append(c_chunks,
                 ChunkInfo(c_current_page, e, c_file_size, c_total_pages))
          /\ c_current_page' = e + 1
    /\ UNCHANGED <<c_doc_pages, c_file_size, c_chunk_size_mb, c_doc_open,
                   c_total_pages, c_pages_per_chunk, c_pc, notChunk>>

\* lines 57-60: the loop is over, close and return the list
CreateChunksReturn ==
    /\ c_pc = "loop"
    /\ ~(c_current_page < c_total_pages)
    /\ c_doc_open' = FALSE
    /\ c_pc' = "done"
    /\ UNCHANGED <<c_doc_pages, c_file_size, c_chunk_size_mb,
                   c_total_pages, c_pages_per_chunk, c_chunks, c_current_page,
                   notChunk>>

ChunkNext == CreateChunksEnter \/ CreateChunksStep \/ CreateChunksReturn

SpecChunk == ChunkInit /\ [][ChunkNext]_vars

RECURSIVE SumPageCount(_)
SumPageCount(cs) ==
    IF cs = <<>> THEN 0 ELSE cs[1].page_count + SumPageCount(Tail(cs))

\* C1: the returned chunks cover pages 0..P-1 exactly once and in order: the
\* first starts at 0, each starts right after the previous one ends, the last
\* ends at P-1, none is empty, and the page_count fields add up to P.
C1_ChunksCoverPages ==
    (c_pc = "done") =>
        /\ (c_doc_pages = 0) => (c_chunks = <<>>)
        /\ (c_doc_pages > 0) =>
              /\ c_chunks # <<>>
              /\ c_chunks[1].start_page = 0
              /\ c_chunks[Len(c_chunks)].end_page = c_doc_pages - 1
        /\ \A k \in 1..Len(c_chunks) :
              /\ c_chunks[k].start_page <= c_chunks[k].end_page
              /\ c_chunks[k].page_count =
                     c_chunks[k].end_page - c_chunks[k].start_page + 1
              /\ (k > 1) => (c_chunks[k].start_page = c_chunks[k - 1].end_page + 1)
        /\ SumPageCount(c_chunks) = c_doc_pages

\* a returned list of several chunks whose last chunk is shorter than the first
C1_Witness ==
    /\ c_pc = "done"
    /\ Len(c_chunks) >= 2
    /\ c_chunks[Len(c_chunks)].page_count < c_chunks[1].page_count

\* C14: for P >= 1 pages and file size S, with k = max(1, floor(budget / (S / P))),
\* every returned chunk but the last has exactly k pages and the last has
\* between 1 and k; three pages in 12 MB under a 10 MB budget give exactly the
\* chunks [0,1] and [2,2].
C14_ChunksOfKPages ==
    (c_pc = "done" /\ c_doc_pages >= 1) =>
        \E k \in 1..Max(1, c_doc_pages * (MaxChunkMb + 1)) :
            /\ \/ k = 1 /\ c_chunk_size_mb * MiB * c_doc_pages < 2 * c_file_size
               \/ /\ k * c_file_size <= c_chunk_size_mb * MiB * c_doc_pages
                  /\ c_chunk_size_mb * MiB * c_doc_pages < (k + 1) * c_file_size
            /\ \A n \in 1..(Len(c_chunks) - 1) : c_chunks[n].page_count = k
            /\ c_chunks # <<>>
            /\ c_chunks[Len(c_chunks)].page_count \in 1..k
            /\ (c_doc_pages = 3 /\ c_file_size = 12 * MiB /\ c_chunk_size_mb = 10) =>
                  /\ k = 2
                  /\ [n \in 1..Len(c_chunks) |->
                         <<c_chunks[n].start_page, c_chunks[n].end_page>>]
                     = << <<0, 1>>, <<2, 2>> >>

\* the list returned for three pages, 12 MB and a 10 MB budget
C14_Witness ==
    /\ c_pc = "done"
    /\ c_doc_pages = 3
    /\ c_file_size = 12 * MiB
    /\ c_chunk_size_mb = 10
    /\ Len(c_chunks) = 2

\* a page larger than the budget still forms a chunk of its own
C14_WitnessPageOverBudget ==
    /\ c_pc = "done"
    /\ c_doc_pages = 2
    /\ c_file_size = 12 * MiB
    /\ c_chunk_size_mb = 1
    /\ Len(c_chunks) = 2
    /\ c_chunks[1].page_count = 1

\* C13: a chunk size that is zero or negative is rejected before processing
\* starts: under such a configuration create_chunks opens no document and
\* computes no chunk list.
C13_InvalidChunkSizeRejected ==
    (c_chunk_size_mb <= 0) => (c_pc = "start" /\ ~c_doc_open /\ c_chunks = <<>>)

(***************************************************************************)
(* SpecFilter: one TextFilter instance, called on a document               *)
(***************************************************************************)

MaxFilterPages == 3
MaxFilterCalls == 2

\* page texts: "h" is a running header, "x" body text
PageSamples == {
    <<>>,
    <<"x">>,
    <<"h", "nl", "x">>,
    <<"h", "nl", "sp", "h">>,
    <<"h", "nl", "sp", "h", "nl", "h", "sp">>,
    <<"7">>,
    <<"(c)", "sp", "2", "0", "2", "0">> }

FilterDocs == UNION {[1..n -> PageSamples] : n \in 0..MaxFilterPages}

\* min_threshold arguments: absent, or an override
MinThresholdArgs == {<<>>, <<2>>}

FilterInit ==
    /\ NormIdle /\ ChunkIdle /\ PipeIdle
    /\ f_min_repetition_threshold = 3
    /\ f_call \in [op : {"none"}, pages : FilterDocs]
    /\ f_repetitive = {}
    /\ f_result = <<>>
    /\ f_calls = 0

\* TextFilter.detect_repetitive_lines(pages)
DetectRepetitiveLinesCall ==
    /\ f_calls < MaxFilterCalls
    /\ f_call' = [op |-> "detect_repetitive_lines", pages |-> f_call.pages,
                  threshold |-> f_min_repetition_threshold]
    /\ f_repetitive' =
           detect_repetitive_lines(f_call.pages, f_min_repetition_threshold)
    /\ f_result' = <<>>
    /\ f_calls' = f_calls + 1
    /\ UNCHANGED <<f_min_repetition_threshold, notFilter>>

\* TextFilter.filter_document(pages, remove_repetitive, remove_copyright, min_threshold)
FilterDocumentCall ==
    \E remove_repetitive \in BOOLEAN, remove_copyright \in BOOLEAN,
       min_threshold \in MinThresholdArgs :
        LET threshold == ThresholdAfter(f_min_repetition_threshold, min_threshold)
            repetitive_lines ==
                RepetitiveFor(f_call.pages, remove_repetitive, threshold)
        IN /\ f_calls < MaxFilterCalls
           /\ f_min_repetition_threshold' = threshold
           /\ f_call' = [op |-> "filter_document", pages |-> f_call.pages,
                         remove_repetitive |-> remove_repetitive,
                         remove_copyright |-> remove_copyright,
                         min_threshold |-> min_threshold,
                         threshold_before |-> f_min_repetition_threshold]
           /\ f_repetitive' = repetitive_lines
           /\ f_result' = FilterPages(f_call.pages, repetitive_lines, remove_copyright)
           /\ f_calls' = f_calls + 1
           /\ UNCHANGED notFilter

FilterNext == DetectRepetitiveLinesCall \/ FilterDocumentCall

SpecFilter == FilterInit /\ [][FilterNext]_vars

\* C5: with the default threshold 3, detect_repetitive_lines returns exactly
\* the non-empty trimmed lines shorter than 200 characters that occur on at
\* least max(3, 5% of N) pages; a line on exactly one page is never returned.
C5_DetectsExactlyRepeatedLines ==
    (f_call.op = "detect_repetitive_lines" /\ f_call.threshold = 3
        /\ Len(f_call.pages) >= 1) =>
        /\ f_repetitive =
             {l \in CountedLines(f_call.pages) :
                 /\ Cardinality(PagesContaining(f_call.pages, l)) >= 3
                 /\ Cardinality(PagesContaining(f_call.pages, l)) * 100
                       >= Len(f_call.pages) * 5}
        /\ \A l \in f_repetitive :
             Cardinality(PagesContaining(f_call.pages, l)) # 1

\* C15: in detect_repetitive_lines a page adds at most 1 to the tally of a
\* trimmed line, however many of its lines trim to it: no tally exceeds the
\* number of pages, and no line on fewer pages than the threshold is returned.
C15_PageAddsAtMostOne ==
    (f_call.op = "detect_repetitive_lines") =>
        /\ \A l \in CountedLines(f_call.pages) :
              /\ \A k \in 1..Len(f_call.pages) : PageTally(f_call.pages[k], l) <= 1
              /\ LineCount(f_call.pages, l) <= Len(f_call.pages)
        /\ \A l \in f_repetitive :
              Cardinality(PagesContaining(f_call.pages, l)) >= f_call.threshold

\* C17: a filter_document call leaves the instance's min_repetition_threshold
\* at its construction-time value, and a call that passes no min_threshold
\* filters with that value whatever the calls before it passed.
C17_ThresholdNotCarriedOver ==
    /\ f_min_repetition_threshold = 3
    /\ (f_call.op = "filter_document" /\ f_call.min_threshold = <<>>) =>
          /\ f_call.threshold_before = 3
          /\ f_repetitive = RepetitiveFor(f_call.pages, f_call.remove_repetitive, 3)

\* r is s with some elements left out, the rest in their order
RECURSIVE IsSubsequence(_, _)
IsSubsequence(r, s) ==
    IF r = <<>> THEN TRUE
    ELSE IF s = <<>> THEN FALSE
    ELSE IF r[1] = s[1] THEN IsSubsequence(Tail(r), Tail(s))
    ELSE IsSubsequence(r, Tail(s))

\* C6: filter_document returns no empty page text, keeps the surviving pages
\* in their input order, and never returns more pages than it was given.
C6_NoEmptyPageReturned ==
    (f_call.op = "filter_document") =>
        /\ \A k \in 1..Len(f_result) : f_result[k] # <<>>
        /\ Len(f_result) <= Len(f_call.pages)
        /\ IsSubsequence(f_result,
               [k \in 1..Len(f_call.pages) |->
                   filter_page(f_call.pages[k], f_repetitive,
                               f_call.remove_copyright)])

\* a call that dropped an emptied page from between two surviving ones
C6_Witness ==
    /\ f_call.op = "filter_document"
    /\ Len(f_call.pages) = 3
    /\ Len(f_result) = 2
    /\ filter_page(f_call.pages[2], f_repetitive, f_call.remove_copyright) = <<>>
    /\ f_call.pages[2] # <<>>

(***************************************************************************)
(* SpecNorm: normalize applied to an input, then to its own output         *)
(***************************************************************************)

MaxNormLen == 3

NormAlphabet == {"x", "-", "shy", "nl", "sp", "nbsp", "fi"}

NormInputs == UNION {[1..n -> NormAlphabet] : n \in 0..MaxNormLen}

NormOptions == [ligatures : BOOLEAN, unicode_norm : BOOLEAN, whitespace : BOOLEAN,
                soft_hyphens : BOOLEAN, ocr_errors : BOOLEAN]

NormInit ==
    /\ ChunkIdle /\ FilterIdle /\ PipeIdle
    /\ n_text \in NormInputs
    /\ n_opts \in NormOptions
    /\ n_once = <<>>
    /\ n_twice = <<>>
    /\ n_pc = "start"

NormalizeFirst ==
    /\ n_pc = "start"
    /\ n_once' = NormalizeWith(n_text, n_opts)
    /\ n_pc' = "once"
    /\ UNCHANGED <<n_text, n_opts, n_twice, notNorm>>

NormalizeSecond ==
    /\ n_pc = "once"
    /\ n_twice' = NormalizeWith(n_once, n_opts)
    /\ n_pc' = "twice"
    /\ UNCHANGED <<n_text, n_opts, n_once, notNorm>>

NormNext == NormalizeFirst \/ NormalizeSecond

SpecNorm == NormInit /\ [][NormNext]_vars

\* C4: normalize is idempotent: normalizing the output of normalize again,
\* with the same options, gives that output back, for every text and options.
C4_NormalizeIdempotent == (n_pc = "twice") => (n_twice = n_once)

====
